---------------------------- MODULE Spec2Model ----------------------------
(***************************************************************************)
(* A/B hypothesis-testing orchestrator (src/stats/ab_testing.py) and the   *)
(* statistical primitives it sequences (src/stats/hypothesis.py).          *)
(*                                                                         *)
(* Tables are pandas DataFrames: a set of column names and a sequence of   *)
(* rows.  Numeric cells are records [na, v]: na = TRUE is the missing      *)
(* value (NaN), otherwise v is the integer held.  Tables live in a heap    *)
(* of objects so that df.copy() and aliasing are distinguishable.          *)
(***************************************************************************)
EXTENDS Integers, Sequences, FiniteSets, TLC

VARIABLES heap,      \* object id -> table (the DataFrames that exist)
          tester,    \* the ABTester's fields: references into the heap
          call,      \* the last operation invoked and its arguments
          result,    \* how that operation ended: returned value or raised exception
          log,       \* the primitives and prints executed by that operation, in order
          orig       \* history: the caller's table as it was handed over

vars == <<heap, tester, call, result, log, orig>>

----------------------------------------------------------------------------
(* Bounds of the model *)

\* most rows with TotalClaims > 0 a group holds in a generated table
MaxClaimRows == 5

\* longest group list handed to run_hypothesis_test
MaxGroups == 3

(* Program constants *)

\* minimum observations per group (ab_testing.py: shape[0] < 5)
MinObs == 5

\* significance threshold 0.05, in units of 1e-5 (hypothesis.py: p_value < 0.05)
Alpha == 5000

\* p = 1.0 in the same units
POne == 20 * Alpha

----------------------------------------------------------------------------
(* Cell values *)

NaN == [na |-> TRUE, v |-> 0]

Num(x) == [na |-> FALSE, v |-> x]

\* pandas: series > 0 ; a comparison with NaN is False
GtZero(x) == (~x.na) /\ x.v > 0

\* pandas: elementwise a - b ; NaN if either operand is NaN
Sub(a, b) == IF a.na \/ b.na THEN NaN ELSE Num(a.v - b.v)

(* Sequence helpers *)

RECURSIVE Repeat(_, _)
Repeat(x, n) == IF n = 0 THEN <<>> ELSE <<x>> \o Repeat(x, n - 1)

RECURSIVE SumSeq(_)
SumSeq(s) == IF s = <<>> THEN 0 ELSE Head(s) + SumSeq(Tail(s))

Abs(x) == IF x < 0 THEN -x ELSE x

----------------------------------------------------------------------------
(* The tables handed to the orchestrator *)

GroupCol == "Province"

Groups == {"A", "B"}

RawCols == {"Province", "TotalClaims", "TotalPremium"}

RawRow(g, claims, premium) ==
    [Province |-> g, TotalClaims |-> claims, TotalPremium |-> premium]

\* rows without a claim: a zero claim, and a missing TotalClaims
OtherKinds == {"zero", "missing"}

OtherRow(g, k) ==
    IF k = "zero" THEN RawRow(g, Num(0), Num(3)) ELSE RawRow(g, NaN, Num(3))

\* the rows of group g: n1 claims of 1, n2 claims of 2, then the rows without a claim
Block(g, n1, n2, others) ==
    Repeat(RawRow(g, Num(1), Num(3)), n1) \o Repeat(RawRow(g, Num(2), Num(3)), n2)
    \o (IF "zero" \in others THEN <<OtherRow(g, "zero")>> ELSE <<>>)
    \o (IF "missing" \in others THEN <<OtherRow(g, "missing")>> ELSE <<>>)

ClaimCounts == {c \in (0..MaxClaimRows) \X (0..MaxClaimRows) : c[1] + c[2] <= MaxClaimRows}

\* rows of a third province, which no comparison names
Bystanders == {<<>>, <<RawRow("C", Num(1), Num(3))>>}

\* group A takes every mix of claim amounts and of rows without a claim; group B
\* holds claims of amount 1 only
Tables ==
    { [cols |-> RawCols,
       rows |-> Block("A", ca[1], ca[2], oa) \o Block("B", nb, 0, ob) \o by] :
      ca \in ClaimCounts, oa \in SUBSET OtherKinds,
      nb \in 0..MaxClaimRows, ob \in SUBSET OtherKinds, by \in Bystanders }

NoTable == [cols |-> {}, rows |-> <<>>]

\* object ids: the caller's table, and the two the tester allocates
CallerRef == 1

Refs == 1..3


----------------------------------------------------------------------------
(* Python values and outcomes *)

\* the null sentinel
None == [none |-> TRUE]

\* an operation either returns a value or raises an exception
Ret(v) == [raised |-> FALSE, exc |-> "", val |-> v]

Raise(e) == [raised |-> TRUE, exc |-> e, val |-> None]

NoCall == [raised |-> FALSE, exc |-> "", val |-> None]

(* Series helpers *)

\* Series.dropna()
DropNa(s) == SelectSeq(s, LAMBDA x : ~x.na)

\* the column of a table, as a Series
Column(rows, c) == [i \in DOMAIN rows |-> rows[i][c]]

\* n, sum, sum of squares, and D = n*Q - S^2 (n(n-1) times the sample variance)
Moments(s) ==
    LET n == Len(s)
        S == SumSeq([i \in DOMAIN s |-> s[i].v])
        Q == SumSeq([i \in DOMAIN s |-> s[i].v * s[i].v])
    IN  [n |-> n, S |-> S, Q |-> Q, D |-> n * Q - S * S]

\* num/den rounded half-to-even to `scale` units per one, as a float format
\* specifier rounds ( f"{x:.4f}" is RoundRatio(num, den, 10000) ); NaN prints "nan"
RoundRatio(num, den, scale) ==
    IF den = 0 THEN NaN
    ELSE LET q == (num * scale) \div den
             r == (num * scale) % den
         IN  IF 2 * r > den \/ (2 * r = den /\ q % 2 = 1) THEN Num(q + 1) ELSE Num(q)

\* a formatted cell: the number held in 1/scale units
Fmt(x, unit, scale) == IF x.na THEN NaN ELSE RoundRatio(x.v, unit, scale)

\* two-sided tail probability of a squared standard score num/den, in 1e-5
\* units, tabulated at |z| = 0, 1/2, 1, 2, 3 (scipy's distribution functions
\* evaluated at the largest tabulated point not above |z|)
TwoSidedTail(num, den) ==
    IF num = 0 THEN POne
    ELSE IF num >= 9 * den THEN 270
    ELSE IF num >= 4 * den THEN 4550
    ELSE IF num >= den THEN 31731
    ELSE 61708


----------------------------------------------------------------------------
(* scipy / pandas routines the primitives wrap.  `fault` says that the     *)
(* routine raises on its input for a reason the cell model does not hold   *)
(* (e.g. a column of a type it cannot compute on).                         *)

IsNone(x) == DOMAIN x = {"none"}

\* a test statistic or effect: NaN, +-infinity, or sgn * sqrt(num/den)
StatNaN == [na |-> TRUE, inf |-> FALSE, sgn |-> 0, num |-> 0, den |-> 1]

StatInf(sg) == [na |-> FALSE, inf |-> TRUE, sgn |-> sg, num |-> 0, den |-> 1]

StatFinite(sg, n, d) == [na |-> FALSE, inf |-> FALSE, sgn |-> sg, num |-> n, den |-> d]

Sign(x) == IF x > 0 THEN 1 ELSE IF x < 0 THEN -1 ELSE 0

\* scipy.stats.ttest_ind(a, b, equal_var=False): Welch's t and its two-sided p.
\* t^2 = diff^2 (na-1)(nb-1) / (Da nb^2 (nb-1) + Db na^2 (na-1)), diff = Sa nb - Sb na.
\* Fewer than two values in a sample, or 0/0, gives nan; x/0 gives +-inf and p = 0.
ttest_ind(a, b, fault) ==
    LET ma == Moments(a)
        mb == Moments(b)
        diff == ma.S * mb.n - mb.S * ma.n
        num == diff * diff * (ma.n - 1) * (mb.n - 1)
        den == ma.D * mb.n * mb.n * (mb.n - 1) + mb.D * ma.n * ma.n * (ma.n - 1)
    IN  IF fault THEN Raise("TypeError")
        ELSE IF ma.n < 2 \/ mb.n < 2 \/ (den = 0 /\ diff = 0)
             THEN Ret([stat |-> StatNaN, p |-> NaN])
        ELSE IF den = 0
             THEN Ret([stat |-> StatInf(Sign(diff)), p |-> Num(0)])
        ELSE Ret([stat |-> StatFinite(Sign(diff), num, den),
                  p |-> Num(TwoSidedTail(num, den))])

\* (a.mean() - b.mean()) / sqrt((a.var() + b.var()) / 2) in floating point:
\* d^2 = 2 diff^2 (na-1)(nb-1) / (na nb (Da nb (nb-1) + Db na (na-1)))
PooledEffect(a, b, fault) ==
    LET ma == Moments(a)
        mb == Moments(b)
        diff == ma.S * mb.n - mb.S * ma.n
        den == ma.D * mb.n * (mb.n - 1) + mb.D * ma.n * (ma.n - 1)
    IN  IF fault THEN Raise("TypeError")
        ELSE IF ma.n < 2 \/ mb.n < 2 \/ (den = 0 /\ diff = 0) THEN Ret(StatNaN)
        ELSE IF den = 0 THEN Ret(StatInf(Sign(diff)))
        ELSE Ret(StatFinite(Sign(diff), 2 * diff * diff * (ma.n - 1) * (mb.n - 1),
                            ma.n * mb.n * den))

\* pd.crosstab(df[col1], df[col2]): counts per pair of values that occur
Crosstab(rows, col1, col2) ==
    LET R == {rows[i][col1] : i \in DOMAIN rows}
        C == {rows[i][col2] : i \in DOMAIN rows}
    IN  [r \in R |-> [c \in C |->
            Cardinality({i \in DOMAIN rows : rows[i][col1] = r /\ rows[i][col2] = c})]]

RowTotal(table, r) ==
    LET C == DOMAIN table[r]
        f[S \in SUBSET C] == IF S = {} THEN 0
                             ELSE LET c == CHOOSE c \in S : TRUE
                                  IN  table[r][c] + f[S \ {c}]
    IN  f[C]

ColTotal(table, c) ==
    LET R == DOMAIN table
        f[S \in SUBSET R] == IF S = {} THEN 0
                             ELSE LET r == CHOOSE r \in S : TRUE
                                  IN  table[r][c] + f[S \ {r}]
    IN  f[R]

GrandTotal(table) ==
    LET R == DOMAIN table
        f[S \in SUBSET R] == IF S = {} THEN 0
                             ELSE LET r == CHOOSE r \in S : TRUE
                                  IN  RowTotal(table, r) + f[S \ {r}]
    IN  f[R]

\* scipy.stats.chi2_contingency(table) on a table of at most 2 x 2 cells:
\* raises ValueError on an empty table; dof = 0 gives statistic 0 and p = 1;
\* dof = 1 applies Yates' correction: N (2|ad - bc| - N)^2 / (4 r1 r2 c1 c2)
chi2_contingency(table) ==
    LET R == DOMAIN table
        C == IF R = {} THEN {} ELSE DOMAIN table[CHOOSE r \in R : TRUE]
        dof == (Cardinality(R) - 1) * (Cardinality(C) - 1)
        N == GrandTotal(table)
        expected == [r \in R |-> [c \in C |->
                        [num |-> RowTotal(table, r) * ColTotal(table, c), den |-> N]]]
    IN  IF R = {} THEN Raise("ValueError")
        ELSE IF dof = 0
             THEN Ret([stat |-> StatFinite(0, 0, 1), p |-> Num(POne), dof |-> 0,
                       expected |-> expected])
        ELSE LET r1 == CHOOSE r \in R : TRUE
                 r2 == CHOOSE r \in R : r # r1
                 c1 == CHOOSE c \in C : TRUE
                 c2 == CHOOSE c \in C : c # c1
                 x == 2 * Abs(table[r1][c1] * table[r2][c2] - table[r1][c2] * table[r2][c1]) - N
                 num == IF x <= 0 THEN 0 ELSE N * x * x
                 den == 4 * RowTotal(table, r1) * RowTotal(table, r2)
                          * ColTotal(table, c1) * ColTotal(table, c2)
             IN  Ret([stat |-> StatFinite(Sign(num), num, den),
                      p |-> Num(TwoSidedTail(num, den)), dof |-> dof,
                      expected |-> expected])

\* scipy.stats.mannwhitneyu(a, b, alternative="two-sided"): U of the first
\* sample (pairs a_i > b_j, ties counting one half) and the two-sided p of its
\* normal approximation with continuity correction; an empty sample gives nan
mannwhitneyu(a, b, fault) ==
    LET n1 == Len(a)
        n2 == Len(b)
        twoU == SumSeq([i \in DOMAIN a |->
                   SumSeq([j \in DOMAIN b |->
                      IF a[i].v > b[j].v THEN 2 ELSE IF a[i].v = b[j].v THEN 1 ELSE 0])])
        dev == Abs(twoU - n1 * n2) - 1
        num == IF dev <= 0 THEN 0 ELSE 3 * dev * dev
    IN  IF fault THEN Raise("ValueError")
        ELSE IF n1 = 0 \/ n2 = 0 THEN Ret([stat |-> StatNaN, p |-> NaN])
        ELSE Ret([stat |-> StatFinite(1, twoU * twoU, 4),
                  p |-> Num(TwoSidedTail(num, n1 * n2 * (n1 + n2 + 1)))])

\* scipy.stats.f_oneway(*groups): TypeError for fewer than two groups; for two,
\* F = diff^2 (N - 2) / (N (Da nb + Db na)) and its tail; nan for an empty
\* group or 0/0, inf and p = 0 for x/0
f_oneway(groups, fault) ==
    IF fault \/ Len(groups) < 2 THEN Raise("TypeError")
    ELSE LET ma == Moments(groups[1])
             mb == Moments(groups[2])
             N == ma.n + mb.n
             diff == ma.S * mb.n - mb.S * ma.n
             num == diff * diff * (N - 2)
             den == N * (ma.D * mb.n + mb.D * ma.n)
         IN  IF ma.n = 0 \/ mb.n = 0 \/ (den = 0 /\ num = 0)
             THEN Ret([stat |-> StatNaN, p |-> NaN])
             ELSE IF den = 0 THEN Ret([stat |-> StatInf(1), p |-> Num(0)])
             ELSE Ret([stat |-> StatFinite(1, num, den), p |-> Num(TwoSidedTail(num, den))])

RECURSIVE MinOf(_)
MinOf(s) == IF Len(s) = 1 THEN s[1].v
            ELSE LET m == MinOf(Tail(s)) IN IF s[1].v < m THEN s[1].v ELSE m

RECURSIVE MaxOf(_)
MaxOf(s) == IF Len(s) = 1 THEN s[1].v
            ELSE LET m == MaxOf(Tail(s)) IN IF s[1].v > m THEN s[1].v ELSE m

\* the body of bootstrap_ci: the 2.5th and 97.5th percentiles of n resampled
\* differences of means.  The draws are random: any lo <= hi between the least
\* and the greatest difference of two values can come out; with an empty
\* sample every resampled mean is nan
BootstrapOutcomes(a, b, fault) ==
    IF fault THEN {Raise("TypeError")}
    ELSE IF Len(a) = 0 \/ Len(b) = 0 THEN {Ret([ci |-> <<NaN, NaN>>])}
    ELSE LET R == (MinOf(a) - MaxOf(b))..(MaxOf(a) - MinOf(b))
         IN  {Ret([ci |-> <<Num(q[1]), Num(q[2])>>]) : q \in {q \in R \X R : q[1] <= q[2]}}

----------------------------------------------------------------------------
(* The primitives of hypothesis.py: each wraps its computation in          *)
(* try / except Exception and returns None when it raised.                 *)

\* try: return <computation> except Exception: print(...); return None
CatchValueError(outcome) ==
    IF outcome.raised /\ outcome.exc = "ValueError" THEN Ret(None) ELSE outcome

CatchAll(outcome) == IF outcome.raised THEN Ret(None) ELSE outcome

t_test(a, b, fault) == CatchAll(ttest_ind(DropNa(a), DropNa(b), fault))

cohens_d(a, b, fault) == CatchAll(PooledEffect(DropNa(a), DropNa(b), fault))

chi_square(rows, col1, col2) == CatchAll(chi2_contingency(Crosstab(rows, col1, col2)))

mann_whitney(a, b, fault) == CatchAll(mannwhitneyu(DropNa(a), DropNa(b), fault))

run_anova(groups, fault) ==
    CatchAll(f_oneway([i \in DOMAIN groups |-> DropNa(groups[i])], fault))

\* bootstrap_ci(a, b) given what its resampling came to
bootstrap_ci(drawn) == CatchAll(drawn)

\* significant = p_value < 0.05 ; nan < 0.05 is False
SignificantLe(p_value) == (~p_value.na) /\ p_value.v <= Alpha

Significant(p_value) == (~p_value.na) /\ p_value.v < Alpha

\* the body of translate_insight's try block: `p_value < 0.05` and the :.4f
\* format raise TypeError on None; nan < 0.05 is False
InsightBody(test_name, p_value, effect) ==
    IF IsNone(p_value) THEN Raise("TypeError")
    ELSE LET significant == Significant(p_value)
         IN  Ret(("What" :> [test_name |-> test_name, p |-> Fmt(p_value, POne, 10000)])
              @@ ("Interpretation" :> (IF significant THEN "Significant difference"
                                       ELSE "No significant difference"))
              @@ ("EffectSize" :> effect)
              @@ ("BusinessAction" :>
                    (IF significant
                     THEN "Investigate driver variables and adjust pricing or risk models."
                     ELSE "No immediate business action required.")))

translate_insight(test_name, p_value, effect) ==
    CatchAll(InsightBody(test_name, p_value, effect))


----------------------------------------------------------------------------
(* ABTester (ab_testing.py) *)

\* HasClaim = (TotalClaims > 0).astype(int)
HasClaimNotNegative(claims) == IF claims.na \/ claims.v > 0 THEN 1 ELSE 0

HasClaimOf(claims) == IF GtZero(claims) THEN 1 ELSE 0

\* Margin = TotalPremium - TotalClaims
MarginOf(premium, claims) == Sub(premium, claims)

\* df.copy(): the reference the tester keeps is the fresh object
DfAlias(ref, fresh) == ref

DfCopy(ref, fresh) == fresh

\* _prepare_data's two column assignments on self.df
PrepareData(t) ==
    [cols |-> t.cols \cup {"HasClaim", "Margin"},
     rows |-> [i \in DOMAIN t.rows |->
                [Province |-> t.rows[i].Province,
                 TotalClaims |-> t.rows[i].TotalClaims,
                 TotalPremium |-> t.rows[i].TotalPremium,
                 HasClaim |-> HasClaimOf(t.rows[i].TotalClaims),
                 Margin |-> MarginOf(t.rows[i].TotalPremium, t.rows[i].TotalClaims)]]]

\* self.severity_df = self.df[self.df['HasClaim'] == 1].copy()
SeverityOf(t) ==
    [cols |-> t.cols, rows |-> SelectSeq(t.rows, LAMBDA r : r.HasClaim = 1)]

\* rows of a table whose group column equals g
GroupRows(rows, col, g) == SelectSeq(rows, LAMBDA r : r[col] = g)

\* Series.mean() of an integer column, formatted with :.4f / :.2f (nan when empty)
MeanFmt(series, scale) ==
    LET d == DropNa(series) IN RoundRatio(Moments(d).S, Len(d), scale)

IntCells(s) == [i \in DOMAIN s |-> Num(s[i])]

TestName(what, col, a, b) == [test |-> what, col |-> col, a |-> a, b |-> b]

\* a method's outcome together with the calls it made
Done(outcome, calls) == [out |-> outcome, log |-> calls]

InsufficientFrequency ==
    ("Test" :> "Frequency (Chi-Sq)") @@ ("Interpretation" :> "Not enough data/variance for test.")

\* data = self.df[self.df[group_col].isin([group_a, group_b])]
FrequencyDataUnfiltered(df, col, a, b) == df.rows

FrequencyData(df, col, a, b) == SelectSeq(df.rows, LAMBDA r : r[col] \in {a, b})

test_frequency(df, col, a, b) ==
    LET data == FrequencyData(df, col, a, b)
        cs == chi_square(data, col, "HasClaim")
        rate_a == MeanFmt(IntCells(Column(GroupRows(data, col, a), "HasClaim")), 10000)
        rate_b == MeanFmt(IntCells(Column(GroupRows(data, col, b), "HasClaim")), 10000)
    IN  IF cs.raised
        THEN IF cs.exc = "ValueError"
             THEN Done(Ret(InsufficientFrequency), <<"chi_square">>)
             ELSE Done(cs, <<"chi_square">>)
        ELSE IF IsNone(cs.val)
        THEN \* unpacking None: TypeError, which `except ValueError` lets through
             Done(Raise("TypeError"), <<"chi_square">>)
        ELSE LET insight == translate_insight(
                                TestName("Chi-Sq on Claim Frequency", col, a, b),
                                cs.val.p, None)
                 calls == <<"chi_square", "translate_insight">>
             IN  IF insight.raised THEN Done(insight, calls)
                 ELSE IF IsNone(insight.val) THEN Done(Raise("TypeError"), calls)
                 ELSE Done(Ret(("Rate A" :> [group |-> a, value |-> rate_a])
                            @@ ("Rate B" :> [group |-> b, value |-> rate_b])
                            @@ ("P-Value" :> Fmt(cs.val.p, POne, 10000))
                            @@ insight.val), calls)

InsufficientSeverity ==
    ("Test" :> "Severity (T-Test)") @@ ("Interpretation" :> "Insufficient claims data for groups.")

test_severity(severity_df, col, a, b, faults) ==
    LET data_a == Column(GroupRows(severity_df.rows, col, a), "TotalClaims")
        data_b == Column(GroupRows(severity_df.rows, col, b), "TotalClaims")
        tt == t_test(data_a, data_b, "ttest_ind" \in faults)
        eff == cohens_d(data_a, data_b, "cohens_d" \in faults)
    IN  IF Len(data_a) < MinObs \/ Len(data_b) < MinObs
        THEN Done(Ret(InsufficientSeverity), <<>>)
        ELSE IF tt.raised THEN Done(tt, <<"t_test">>)
        ELSE IF IsNone(tt.val) THEN Done(Raise("TypeError"), <<"t_test">>)
        ELSE IF eff.raised THEN Done(eff, <<"t_test", "cohens_d">>)
        ELSE IF IsNone(eff.val)
        THEN \* f"{None:.3f}" raises TypeError
             Done(Raise("TypeError"), <<"t_test", "cohens_d">>)
        ELSE LET insight == translate_insight(
                                TestName("T-Test on Claim Severity", col, a, b),
                                tt.val.p, eff.val)
                 calls == <<"t_test", "cohens_d", "translate_insight">>
             IN  IF insight.raised THEN Done(insight, calls)
                 ELSE IF IsNone(insight.val) THEN Done(Raise("TypeError"), calls)
                 ELSE Done(Ret(("Avg Claim A" :> [group |-> a, value |-> MeanFmt(data_a, 100)])
                            @@ ("Avg Claim B" :> [group |-> b, value |-> MeanFmt(data_b, 100)])
                            @@ ("P-Value" :> Fmt(tt.val.p, POne, 10000))
                            @@ insight.val), calls)

InsufficientMargin ==
    ("Test" :> "Margin (T-Test)") @@ ("Interpretation" :> "Insufficient data for groups.")

\* self.df[self.df[group_col] == g]['Margin']
MarginDataClaimsOnly(df, col, g) ==
    Column(GroupRows(SelectSeq(df.rows, LAMBDA r : r.HasClaim = 1), col, g), "Margin")

MarginData(df, col, g) == Column(GroupRows(df.rows, col, g), "Margin")

test_margin(df, col, a, b, faults) ==
    LET data_a == MarginData(df, col, a)
        data_b == MarginData(df, col, b)
        tt == t_test(data_a, data_b, "ttest_ind" \in faults)
    IN  IF Len(data_a) < MinObs \/ Len(data_b) < MinObs
        THEN Done(Ret(InsufficientMargin), <<>>)
        ELSE IF tt.raised THEN Done(tt, <<"t_test">>)
        ELSE IF IsNone(tt.val) THEN Done(Raise("TypeError"), <<"t_test">>)
        ELSE LET insight == translate_insight(
                                TestName("T-Test on Margin", col, a, b), tt.val.p, None)
                 calls == <<"t_test", "translate_insight">>
             IN  IF insight.raised THEN Done(insight, calls)
                 ELSE IF IsNone(insight.val) THEN Done(Raise("TypeError"), calls)
                 ELSE Done(Ret(("Avg Margin A" :> [group |-> a, value |-> MeanFmt(data_a, 100)])
                            @@ ("Avg Margin B" :> [group |-> b, value |-> MeanFmt(data_b, 100)])
                            @@ ("P-Value" :> Fmt(tt.val.p, POne, 10000))
                            @@ insight.val), calls)

\* len(groups) != 2 is the error
AtLeastTwoGroups(groups) == Len(groups) >= 2

ExactlyTwoGroups(groups) == Len(groups) = 2

run_hypothesis_test(df, severity_df, col, groups, metric, faults) ==
    IF ~ExactlyTwoGroups(groups) THEN Done(Ret(<<>>), <<"print_error">>)
    ELSE LET a == groups[1]
             b == groups[2]
             f == test_frequency(df, col, a, b)
             s == test_severity(severity_df, col, a, b, faults)
             m == test_margin(df, col, a, b, faults)
         IN  IF metric = "Risk"
             THEN IF f.out.raised THEN Done(f.out, <<"test_frequency">> \o f.log)
                  ELSE IF s.out.raised
                  THEN Done(s.out, <<"test_frequency">> \o f.log \o <<"test_severity">> \o s.log)
                  ELSE Done(Ret(<<f.out.val, s.out.val>>),
                            <<"test_frequency">> \o f.log \o <<"test_severity">> \o s.log)
             ELSE IF metric = "Margin"
             THEN IF m.out.raised THEN Done(m.out, <<"test_margin">> \o m.log)
                  ELSE Done(Ret(<<m.out.val>>), <<"test_margin">> \o m.log)
             ELSE Done(Ret(<<>>), <<>>)


----------------------------------------------------------------------------
(* The state machine: a caller holding a table constructs a tester and     *)
(* then invokes its methods in any order.                                  *)

Metrics == {"Risk", "Margin", "Profit"}

GroupNames == <<"A", "B", "C">>

ListOfLen(k) == [i \in 1..k |-> GroupNames[((i - 1) % 3) + 1]]

GroupLists == {ListOfLen(k) : k \in 0..MaxGroups}

Invocation(op, groups, metric, faults) ==
    [op |-> op, groups |-> groups, metric |-> metric, faults |-> faults]

Init ==
    /\ \E t \in Tables :
          /\ heap = [r \in Refs |-> IF r = CallerRef THEN t ELSE NoTable]
          /\ orig = t
    /\ tester = [df |-> 0, severity_df |-> 0]
    /\ call = Invocation("none", <<>>, "", {})
    /\ result = NoCall
    /\ log = <<>>

\* tester = ABTester(raw_df)
Construct ==
    /\ tester.df = 0
    /\ LET d == DfCopy(CallerRef, 2)
           h1 == [heap EXCEPT ![2] = heap[CallerRef]]
           h2 == [h1 EXCEPT ![d] = PrepareData(h1[d])]
       IN  /\ heap' = [h2 EXCEPT ![3] = SeverityOf(h2[d])]
           /\ tester' = [df |-> d, severity_df |-> 3]
    /\ call' = Invocation("__init__", <<>>, "", {})
    /\ result' = Ret(None)
    /\ log' = <<>>
    /\ UNCHANGED orig

\* the caller has taken the last result (the loops over the returned results in
\* run_ab_tests.main) and the tester is ready for the next call
Idle == tester.df # 0 /\ call.op = "idle"

Consume ==
    /\ tester.df # 0
    /\ call.op # "idle"
    /\ call' = Invocation("idle", <<>>, "", {})
    /\ result' = NoCall
    /\ log' = <<>>
    /\ UNCHANGED <<heap, tester, orig>>

\* the methods read self.df and self.severity_df and bind their filtered rows
\* to locals: neither field nor table is assigned
FinishKeepingClaimsOnly(done) ==
    /\ result' = done.out
    /\ log' = done.log
    /\ heap' = [heap EXCEPT ![tester.df] = SeverityOf(@)]
    /\ UNCHANGED <<tester, orig>>

Finish(done) ==
    /\ result' = done.out
    /\ log' = done.log
    /\ UNCHANGED <<heap, tester, orig>>

CallTestFrequency(a, b) ==
    /\ Idle
    /\ call' = Invocation("test_frequency", <<a, b>>, "", {})
    /\ Finish(test_frequency(heap[tester.df], GroupCol, a, b))

CallTestSeverity(a, b, faults) ==
    /\ Idle
    /\ call' = Invocation("test_severity", <<a, b>>, "", faults)
    /\ Finish(test_severity(heap[tester.severity_df], GroupCol, a, b, faults))

CallTestMargin(a, b, faults) ==
    /\ Idle
    /\ call' = Invocation("test_margin", <<a, b>>, "", faults)
    /\ Finish(test_margin(heap[tester.df], GroupCol, a, b, faults))

CallRunHypothesisTest(groups, metric, faults) ==
    /\ Idle
    /\ call' = Invocation("run_hypothesis_test", groups, metric, faults)
    /\ Finish(run_hypothesis_test(heap[tester.df], heap[tester.severity_df],
                                  GroupCol, groups, metric, faults))

Next ==
    \/ Construct
    \/ Consume
    \/ \E a \in Groups : \E b \in Groups \ {a} : CallTestFrequency(a, b)
    \/ \E a \in Groups : \E b \in Groups \ {a} : CallTestSeverity(a, b, {})
    \/ \E a \in Groups : \E b \in Groups \ {a} : CallTestMargin(a, b, {})
    \/ \E groups \in GroupLists, metric \in Metrics :
          CallRunHypothesisTest(groups, metric, {})

Spec == Init /\ [][Next]_vars

----------------------------------------------------------------------------
(* The same machine when a wrapped library routine may raise inside a      *)
(* primitive, so that the primitive returns None to the tester.            *)

FaultCounts == {<<0, 0>>, <<MinObs - 1, 1>>, <<MinObs, 0>>, <<MinObs - 1, 0>>}

FaultTables ==
    { [cols |-> RawCols,
       rows |-> Block("A", ca[1], ca[2], oa) \o Block("B", cb[1], cb[2], {})] :
      ca \in FaultCounts, cb \in FaultCounts, oa \in SUBSET OtherKinds }

InitFault ==
    /\ \E t \in FaultTables :
          /\ heap = [r \in Refs |-> IF r = CallerRef THEN t ELSE NoTable]
          /\ orig = t
    /\ tester = [df |-> 0, severity_df |-> 0]
    /\ call = Invocation("none", <<>>, "", {})
    /\ result = NoCall
    /\ log = <<>>

LibraryCalls == {"ttest_ind", "cohens_d"}

NextFault ==
    \/ Construct
    \/ Consume
    \/ \E a \in Groups : \E b \in Groups \ {a} : CallTestFrequency(a, b)
    \/ \E a \in Groups : \E b \in Groups \ {a} : \E faults \in SUBSET LibraryCalls :
          CallTestSeverity(a, b, faults)
    \/ \E a \in Groups : \E b \in Groups \ {a} : \E faults \in SUBSET LibraryCalls :
          CallTestMargin(a, b, faults)
    \/ \E groups \in GroupLists, metric \in Metrics, faults \in SUBSET LibraryCalls :
          CallRunHypothesisTest(groups, metric, faults)

SpecFault == InitFault /\ [][NextFault]_vars


----------------------------------------------------------------------------
(* Properties *)

\* the tester's working set, and what the last call was given
WorkingRows == heap[tester.df].rows

ArgA == call.groups[1]

ArgB == call.groups[2]

\* rows of the working set in group g / with a claim in group g
RowsIn(g) == Cardinality({i \in DOMAIN WorkingRows : WorkingRows[i].Province = g})

ClaimsIn(g) ==
    Cardinality({i \in DOMAIN WorkingRows :
                    WorkingRows[i].Province = g /\ WorkingRows[i].HasClaim = 1})

\* a :.4f p-value that is a number between 0 and 1
IsProbability(x) == (~x.na) /\ 0 <= x.v /\ x.v <= 10000

HasPValue(d) == "P-Value" \in DOMAIN d /\ IsProbability(d["P-Value"])

\* C1: test_severity on two distinct groups: with at least 5 claims-only
\* observations in each it returns a non-null result whose p-value lies in
\* [0, 1]; with fewer than 5 in either it returns the insufficient-data result
\* and runs neither the mean-difference test nor the effect size.
C1_SeverityContract ==
    (call.op = "test_severity" /\ ArgA # ArgB) =>
        IF ClaimsIn(ArgA) >= 5 /\ ClaimsIn(ArgB) >= 5
        THEN (~result.raised) /\ (~IsNone(result.val)) /\ HasPValue(result.val)
        ELSE result = Ret(InsufficientSeverity) /\ log = <<>>

\* C2: test_frequency never raises when the rows filtered to the two groups
\* cannot support the chi-squared test (one group empty, both empty, or no
\* variation in HasClaim): it returns the degraded insufficient-data result.
CannotSupportChiSquare ==
    \/ RowsIn(ArgA) = 0
    \/ RowsIn(ArgB) = 0
    \/ ClaimsIn(ArgA) + ClaimsIn(ArgB) = 0
    \/ ClaimsIn(ArgA) + ClaimsIn(ArgB) = RowsIn(ArgA) + RowsIn(ArgB)

C2_FrequencyDegrades ==
    (call.op = "test_frequency" /\ CannotSupportChiSquare) =>
        (~result.raised) /\ result.val = InsufficientFrequency

\* C3: once the tester is constructed, every row of its working set has
\* HasClaim = 1 exactly when TotalClaims > 0; a missing TotalClaims gives
\* HasClaim = 0, and construction returns normally.
C3_HasClaimIffPositive ==
    (tester.df # 0) =>
        /\ \A i \in DOMAIN WorkingRows :
              /\ WorkingRows[i].HasClaim \in {0, 1}
              /\ (WorkingRows[i].HasClaim = 1) <=>
                    ((~WorkingRows[i].TotalClaims.na) /\ WorkingRows[i].TotalClaims.v > 0)
              /\ WorkingRows[i].TotalClaims.na => WorkingRows[i].HasClaim = 0
        /\ Len(WorkingRows) = Len(orig.rows)
        /\ (call.op = "__init__" => ~result.raised)

C3_Witness ==
    /\ call.op = "__init__"
    /\ \E i \in DOMAIN WorkingRows :
          WorkingRows[i].TotalClaims.na /\ WorkingRows[i].HasClaim = 0
    /\ \E i \in DOMAIN WorkingRows :
          WorkingRows[i].TotalClaims = Num(0) /\ WorkingRows[i].HasClaim = 0
    /\ \E i \in DOMAIN WorkingRows :
          WorkingRows[i].TotalClaims = Num(2) /\ WorkingRows[i].HasClaim = 1

\* C5: run_hypothesis_test with a group list whose length is not two reports
\* an error, returns the empty list and runs none of the three tests,
\* whatever the metric.
C5_WrongGroupCount ==
    (call.op = "run_hypothesis_test" /\ Len(call.groups) # 2) =>
        /\ result = Ret(<<>>)
        /\ log = <<"print_error">>

C5_Witness ==
    /\ call.op = "run_hypothesis_test"
    /\ Len(call.groups) = 3
    /\ call.metric = "Risk"
    /\ RowsIn("A") >= 5 /\ RowsIn("B") >= 5
    /\ result = Ret(<<>>)

\* C6: run_hypothesis_test with exactly two groups: 'Risk' returns two
\* results, frequency first and severity second; 'Margin' returns one result,
\* from the margin test only; any other selector runs nothing and returns
\* the empty list.
C6_MetricDispatch ==
    (call.op = "run_hypothesis_test" /\ Len(call.groups) = 2) =>
        /\ ~result.raised
        /\ call.metric = "Risk" =>
              /\ Len(result.val) = 2
              /\ "What" \in DOMAIN result.val[1]
                    => result.val[1]["What"].test_name.test = "Chi-Sq on Claim Frequency"
              /\ "Test" \in DOMAIN result.val[1]
                    => result.val[1]["Test"] = "Frequency (Chi-Sq)"
              /\ "What" \in DOMAIN result.val[2]
                    => result.val[2]["What"].test_name.test = "T-Test on Claim Severity"
              /\ "Test" \in DOMAIN result.val[2]
                    => result.val[2]["Test"] = "Severity (T-Test)"
              /\ "test_margin" \notin {log[i] : i \in DOMAIN log}
        /\ call.metric = "Margin" =>
              /\ Len(result.val) = 1
              /\ {"test_frequency", "test_severity"} \cap {log[i] : i \in DOMAIN log} = {}
        /\ call.metric \notin {"Risk", "Margin"} =>
              /\ result.val = <<>>
              /\ log = <<>>

\* mean of Margin = TotalPremium - TotalClaims over the rows of group g in the
\* caller's table that hold both, as :.2f prints it
OrigMarginMean(g) ==
    LET I == {i \in DOMAIN orig.rows :
                 /\ orig.rows[i].Province = g
                 /\ ~orig.rows[i].TotalClaims.na
                 /\ ~orig.rows[i].TotalPremium.na}
        f[S \in SUBSET I] ==
            IF S = {} THEN 0
            ELSE LET i == CHOOSE i \in S : TRUE
                 IN  orig.rows[i].TotalPremium.v - orig.rows[i].TotalClaims.v + f[S \ {i}]
    IN  RoundRatio(f[I], Cardinality(I), 100)

\* C7: test_margin applies the minimum-sample policy to the full record set:
\* it runs the mean-difference test on Margin only when each group has at
\* least 5 rows in the working set (claims or not), and otherwise returns
\* the insufficient-data result without running any test.
C7_MarginPolicy ==
    (call.op = "test_margin") =>
        IF RowsIn(ArgA) >= 5 /\ RowsIn(ArgB) >= 5
        THEN /\ log = <<"t_test", "translate_insight">>
             /\ ~result.raised
             /\ result.val["What"].test_name.test = "T-Test on Margin"
             /\ result.val["Avg Margin A"].value = OrigMarginMean(ArgA)
             /\ result.val["Avg Margin B"].value = OrigMarginMean(ArgB)
        ELSE result = Ret(InsufficientMargin) /\ log = <<>>

\* a group with 5 rows of which only 4 are claims is tested; a group of 4 is not
C7_Witness ==
    /\ call.op = "test_margin"
    /\ RowsIn(ArgA) = 5 /\ ClaimsIn(ArgA) = 4
    /\ RowsIn(ArgB) >= 5
    /\ log = <<"t_test", "translate_insight">>

\* C8: the caller's table is never mutated: whatever has been constructed or
\* called, it has the columns and values it was handed over with; HasClaim
\* and Margin = TotalPremium - TotalClaims exist only on the tester's copy.
C8_CallerTableUntouched ==
    /\ heap[CallerRef] = orig
    /\ heap[CallerRef].cols = RawCols
    /\ (tester.df # 0) =>
          /\ tester.df # CallerRef
          /\ tester.severity_df # CallerRef
          /\ heap[tester.df].cols = RawCols \cup {"HasClaim", "Margin"}
          /\ \A i \in DOMAIN WorkingRows :
                WorkingRows[i].Margin =
                    (IF orig.rows[i].TotalPremium.na \/ orig.rows[i].TotalClaims.na
                     THEN NaN
                     ELSE Num(orig.rows[i].TotalPremium.v - orig.rows[i].TotalClaims.v))

C8_Witness ==
    /\ call.op = "run_hypothesis_test"
    /\ call.metric = "Risk"
    /\ ~result.raised
    /\ Len(result.val) = 2
    /\ Len(orig.rows) > 10
    /\ heap[CallerRef] = orig
    /\ "Margin" \in heap[tester.df].cols

\* C10: when t_test, cohens_d or translate_insight hands its null sentinel
\* to test_severity or test_margin, the test returns a structured
\* insufficient-data result and does not raise.
SentinelReturned ==
    /\ call.op \in {"test_severity", "test_margin"}
    /\ "t_test" \in {log[i] : i \in DOMAIN log}
    /\ \/ "ttest_ind" \in call.faults
       \/ call.op = "test_severity" /\ "cohens_d" \in call.faults

C10_SentinelConverted ==
    SentinelReturned =>
        /\ ~result.raised
        /\ "Test" \in DOMAIN result.val
        /\ "Interpretation" \in DOMAIN result.val


\* C11: every result in the list run_hypothesis_test returns, successful or
\* degraded, carries the test's name under one and the same key, together
\* with a significance verdict, the p-value and a recommended action.
C11_UniformResultRecord ==
    (call.op = "run_hypothesis_test" /\ ~result.raised) =>
        \E key \in {"Test", "What"} :
            \A i \in DOMAIN result.val :
                {key, "Interpretation", "P-Value", "BusinessAction"}
                    \subseteq DOMAIN result.val[i]

\* the contingency table test_frequency hands to chi2_contingency
FrequencyTable ==
    Crosstab(FrequencyData(heap[tester.df], GroupCol, ArgA, ArgB), GroupCol, "HasClaim")

\* the count in the HasClaim = 1 cell of group g (0 when no row has a claim)
ClaimCell(g) ==
    IF 1 \in DOMAIN FrequencyTable[g] THEN FrequencyTable[g][1] ELSE 0

\* C12: the contingency table test_frequency builds is conservative: each
\* row total is the number of working-set rows of that group, the
\* HasClaim = 1 column total is the number of claims among the filtered rows,
\* the grand total is the filtered row count, and each reported claim rate
\* is the group's HasClaim = 1 cell over its row total.
C12_ContingencyConserved ==
    (call.op = "test_frequency") =>
        /\ DOMAIN FrequencyTable = {g \in {ArgA, ArgB} : RowsIn(g) > 0}
        /\ \A g \in DOMAIN FrequencyTable :
              /\ RowTotal(FrequencyTable, g) = RowsIn(g)
              /\ ClaimCell(g) = ClaimsIn(g)
        /\ GrandTotal(FrequencyTable) = RowsIn(ArgA) + RowsIn(ArgB)
        /\ \A g \in DOMAIN FrequencyTable :
              1 \in DOMAIN FrequencyTable[g] =>
                  ColTotal(FrequencyTable, 1) = ClaimsIn(ArgA) + ClaimsIn(ArgB)
        /\ (~result.raised) =>
              /\ ArgA \in DOMAIN FrequencyTable =>
                    result.val["Rate A"] =
                        [group |-> ArgA,
                         value |-> RoundRatio(ClaimCell(ArgA),
                                              RowTotal(FrequencyTable, ArgA), 10000)]
              /\ ArgB \in DOMAIN FrequencyTable =>
                    result.val["Rate B"] =
                        [group |-> ArgB,
                         value |-> RoundRatio(ClaimCell(ArgB),
                                              RowTotal(FrequencyTable, ArgB), 10000)]

\* two groups of unequal size and claim rate beside a row of a third province
C12_Witness ==
    /\ call.op = "test_frequency"
    /\ ~result.raised
    /\ RowsIn(ArgA) = 5 /\ ClaimsIn(ArgA) = 3
    /\ RowsIn(ArgB) = 2 /\ ClaimsIn(ArgB) = 1
    /\ Len(WorkingRows) = 8
    /\ result.val["Rate A"].value = Num(6000)
    /\ result.val["Rate B"].value = Num(5000)

\* the claims-only subset is exactly the rows of the working set with HasClaim = 1
ClaimsOnlyExact ==
    heap[tester.severity_df].rows =
        SelectSeq(heap[tester.df].rows, LAMBDA r : r.HasClaim = 1)

\* what the call just made returns when it is made again on the present state
Replayed ==
    IF call.op = "test_frequency"
    THEN test_frequency(heap[tester.df], GroupCol, ArgA, ArgB).out
    ELSE IF call.op = "test_severity"
    THEN test_severity(heap[tester.severity_df], GroupCol, ArgA, ArgB, call.faults).out
    ELSE IF call.op = "test_margin"
    THEN test_margin(heap[tester.df], GroupCol, ArgA, ArgB, call.faults).out
    ELSE IF call.op = "run_hypothesis_test"
    THEN run_hypothesis_test(heap[tester.df], heap[tester.severity_df], GroupCol,
                             call.groups, call.metric, call.faults).out
    ELSE result

\* the working set as construction leaves it: the caller's rows, each with its
\* two derived fields
AsConstructed ==
    [i \in DOMAIN orig.rows |->
        [Province |-> orig.rows[i].Province,
         TotalClaims |-> orig.rows[i].TotalClaims,
         TotalPremium |-> orig.rows[i].TotalPremium,
         HasClaim |-> IF (~orig.rows[i].TotalClaims.na) /\ orig.rows[i].TotalClaims.v > 0
                      THEN 1 ELSE 0,
         Margin |-> IF orig.rows[i].TotalPremium.na \/ orig.rows[i].TotalClaims.na
                    THEN NaN
                    ELSE Num(orig.rows[i].TotalPremium.v - orig.rows[i].TotalClaims.v)]]

\* C19: the tester's state is fixed at construction: after any sequence of
\* calls the working set and the claims-only subset are what construction
\* made them, the claims-only subset is exactly the working-set rows with
\* HasClaim = 1, and a call repeated with the same arguments returns the
\* same result.
C19_TesterStateFixed ==
    (tester.df # 0) =>
        /\ tester = [df |-> 2, severity_df |-> 3]
        /\ heap[tester.df].rows = AsConstructed
        /\ heap[tester.severity_df].rows =
              SelectSeq(AsConstructed, LAMBDA r : r.HasClaim = 1)
        /\ ClaimsOnlyExact
        /\ result = Replayed

\* a degraded result and an empty list, over a tester whose claims-only subset
\* is a proper, non-empty part of its working set
C19_Witness ==
    /\ tester.df # 0
    /\ \/ call.op = "test_severity" /\ result = Ret(InsufficientSeverity)
       \/ call.op = "run_hypothesis_test" /\ result = Ret(<<>>)
    /\ Len(heap[tester.severity_df].rows) > 0
    /\ Len(heap[tester.severity_df].rows) < Len(heap[tester.df].rows)
    /\ ClaimsOnlyExact

----------------------------------------------------------------------------
(* The primitives called on their own, on small samples *)

\* longest sample handed to a primitive
MaxSample == 2

Cells == {NaN, Num(1), Num(2)}

Samples == UNION {[1..n -> Cells] : n \in 0..MaxSample}

\* p-values around the threshold, in 1e-5 units: 0, 0.049, 0.04999, 0.05,
\* 0.05001, 1, and nan
PGrid == {Num(0), Num(4900), Num(4999), Num(Alpha), Num(5001), Num(POne), NaN}

CategoryRows ==
    UNION {[1..n -> [g : {"A", "B"}, h : {0, 1}]] : n \in 0..MaxSample}

PrimCall(op, args, fault) == [op |-> op, args |-> args, fault |-> fault]

InitPrim ==
    /\ heap = [r \in Refs |-> NoTable]
    /\ orig = NoTable
    /\ tester = [df |-> 0, severity_df |-> 0]
    /\ call = PrimCall("none", <<>>, FALSE)
    /\ result = NoCall
    /\ log = <<>>

\* log records whether the wrapped computation raised
Returned(op, args, fault, inner, outcome) ==
    /\ call.op = "none"
    /\ call' = PrimCall(op, args, fault)
    /\ result' = outcome
    /\ log' = <<IF inner.raised THEN "error" ELSE "ok">>
    /\ UNCHANGED <<heap, tester, orig>>

PrimTTest(a, b, fault) ==
    Returned("t_test", <<a, b>>, fault,
             ttest_ind(DropNa(a), DropNa(b), fault), t_test(a, b, fault))

PrimMannWhitney(a, b, fault) ==
    Returned("mann_whitney", <<a, b>>, fault,
             mannwhitneyu(DropNa(a), DropNa(b), fault), mann_whitney(a, b, fault))

PrimBootstrapCI(a, b, fault) ==
    \E drawn \in BootstrapOutcomes(DropNa(a), DropNa(b), fault) :
        Returned("bootstrap_ci", <<a, b>>, fault, drawn, bootstrap_ci(drawn))

PrimAnova(groups, fault) ==
    Returned("run_anova", groups, fault,
             f_oneway([i \in DOMAIN groups |-> DropNa(groups[i])], fault),
             run_anova(groups, fault))

PrimChiSquare(rows) ==
    Returned("chi_square", rows, FALSE,
             chi2_contingency(Crosstab(rows, "g", "h")), chi_square(rows, "g", "h"))

PrimCohensD(a, b, fault) ==
    Returned("cohens_d", <<a, b>>, fault,
             PooledEffect(DropNa(a), DropNa(b), fault), cohens_d(a, b, fault))

PrimTranslateInsight(p_value, effect) ==
    Returned("translate_insight", <<p_value, effect>>, FALSE,
             InsightBody("T", p_value, effect), translate_insight("T", p_value, effect))

PrimReset ==
    /\ call.op # "none"
    /\ call' = PrimCall("none", <<>>, FALSE)
    /\ result' = NoCall
    /\ log' = <<>>
    /\ UNCHANGED <<heap, tester, orig>>

NextPrim ==
    \/ \E a \in Samples, b \in Samples, fault \in BOOLEAN : PrimTTest(a, b, fault)
    \/ \E a \in Samples, b \in Samples, fault \in BOOLEAN : PrimMannWhitney(a, b, fault)
    \/ \E a \in Samples, b \in Samples, fault \in BOOLEAN : PrimBootstrapCI(a, b, fault)
    \/ \E a \in Samples, b \in Samples, fault \in BOOLEAN : PrimCohensD(a, b, fault)
    \/ \E groups \in {<<>>} \cup {<<a>> : a \in Samples} \cup (Samples \X Samples),
          fault \in BOOLEAN : PrimAnova(groups, fault)
    \/ \E rows \in CategoryRows : PrimChiSquare(rows)
    \/ \E p_value \in PGrid \cup {None}, effect \in {None, StatNaN} :
          PrimTranslateInsight(p_value, effect)
    \/ PrimReset

SpecPrim == InitPrim /\ [][NextPrim]_vars

Primitives == {"t_test", "mann_whitney", "bootstrap_ci", "run_anova", "chi_square",
               "cohens_d", "translate_insight"}

\* C4: translate_insight's threshold is strict: the verdict is 'Significant
\* difference' with the investigate-and-adjust action exactly when p < 0.05,
\* otherwise 'No significant difference' with the no-action string; p = 0.05
\* is not significant and p = 0.049 is.
C4_StrictThreshold ==
    (call.op = "translate_insight" /\ ~IsNone(call.args[1])) =>
        LET p == call.args[1]
            below == (~p.na) /\ p.v < 5000
        IN  /\ ~result.raised
            /\ ~IsNone(result.val)
            /\ below =>
                  /\ result.val["Interpretation"] = "Significant difference"
                  /\ result.val["BusinessAction"] =
                        "Investigate driver variables and adjust pricing or risk models."
            /\ ~below =>
                  /\ result.val["Interpretation"] = "No significant difference"
                  /\ result.val["BusinessAction"] = "No immediate business action required."
            /\ p = Num(5000) => result.val["Interpretation"] = "No significant difference"
            /\ p = Num(4900) => result.val["Interpretation"] = "Significant difference"

C4_Witness ==
    /\ call.op = "translate_insight"
    /\ call.args[1] = Num(5000)
    /\ result.val["Interpretation"] = "No significant difference"

\* C9: every primitive, and translate_insight, returns to its caller whatever
\* it was given, and returns None whenever its computation raised.
C9_PrimitivesReturnNone ==
    (call.op \in Primitives) =>
        /\ ~result.raised
        /\ log = <<"error">> => IsNone(result.val)
        /\ log = <<"ok">> => ~IsNone(result.val)

\* each kind of failure is reached: an empty contingency table, a single
\* group handed to the analysis of variance, a None p-value, a library fault
C9_Witness ==
    /\ log = <<"error">>
    /\ IsNone(result.val)
    /\ \/ call.op = "chi_square" /\ call.args = <<>>
       \/ call.op = "run_anova" /\ Len(call.args) = 1 /\ ~call.fault
       \/ call.op = "translate_insight"
       \/ call.op \in {"t_test", "mann_whitney", "bootstrap_ci", "cohens_d"} /\ call.fault


----------------------------------------------------------------------------
(* The loader (src/data_loader.py).  A file is absent, empty, or a header   *)
(* line and data lines of '|'-separated tokens.  Cells of a loaded table    *)
(* are numbers and NaN as above, text, timestamps, and NaT.                 *)

\* most data lines in a generated file
MaxLines == 2

Text(s) == [text |-> s]

Date(s) == [date |-> s]

NaT == [nat |-> TRUE]

IsNumberCell(c) == DOMAIN c = {"na", "v"}

IsTextCell(c) == DOMAIN c = {"text"}

\* the tokens read_csv reads as integers
NumericTokens == ("100" :> 100) @@ ("50" :> 50) @@ ("1459" :> 1459)

\* the header names as written in files, per canonical column
PremiumNames == {"TotalPremium", "TotalPremium ", "Total_Premium"}

ClaimsNames == {"TotalClaims", "Total_Claims"}

\* the tokens a data line can hold under a header name
TokensFor(name) ==
    IF name \in PremiumNames THEN {"100", "abc", ""}
    ELSE IF name \in ClaimsNames THEN {"50", "x"}
    ELSE IF name = "TransactionMonth" THEN {"2015-07-01 00:00:00", "July 2015"}
    ELSE IF name = "Province" THEN {"Gauteng"}
    ELSE IF name = "VehicleType" THEN {"Bus"}
    ELSE IF name = "make " THEN {"TOYOTA"}
    ELSE {"1459"}

Headers ==
    { p \o c \o r \o e :
        p \in {<<>>} \cup {<<n>> : n \in PremiumNames},
        c \in {<<>>} \cup {<<n>> : n \in ClaimsNames},
        r \in {<<>>, <<"TransactionMonth", "Province", "VehicleType">>},
        e \in {<<>>, <<"make ", "PostalCode">>} }

\* the files: none at the path; or a header and up to MaxLines data lines, each
\* a choice of token per column.  A file without a header line (no bytes, or
\* blank lines only) has header <<>>
Files ==
    LET LineChoices(h) ==
            { [i \in 1..Len(h) |->
                  IF h[i] \in PremiumNames THEN p
                  ELSE IF h[i] \in ClaimsNames THEN c
                  ELSE IF h[i] = "TransactionMonth" THEN m
                  ELSE CHOOSE t \in TokensFor(h[i]) : TRUE] :
              p \in TokensFor("TotalPremium"), c \in TokensFor("TotalClaims"),
              m \in TokensFor("TransactionMonth") }
        LinesOf(h) == UNION { [1..n -> LineChoices(h)] : n \in 0..MaxLines }
        FilesWith(h) == { [exists |-> TRUE, header |-> h, lines |-> ls] : ls \in LinesOf(h) }
    IN  {[exists |-> FALSE, header |-> <<>>, lines |-> <<>>]}
        \cup UNION { FilesWith(h) : h \in Headers }

\* os.path.exists(filepath)
PathAssumed(file) == TRUE

PathExists(file) == file.exists

\* read_csv's type inference: a column whose tokens are all integers or blank is
\* numeric (blank is NaN); any other column holds its tokens as text (blank is NaN)
ColumnIsNumeric(lines, i) ==
    \A k \in DOMAIN lines : lines[k][i] \in DOMAIN NumericTokens \cup {""}

ParsedCell(lines, k, i) ==
    IF lines[k][i] = "" THEN NaN
    ELSE IF ColumnIsNumeric(lines, i) THEN Num(NumericTokens[lines[k][i]])
    ELSE Text(lines[k][i])

\* pd.read_csv(filepath, sep='|', low_memory=False)
read_csv(file) ==
    IF ~file.exists THEN Raise("FileNotFoundError")
    ELSE IF file.header = <<>> THEN Raise("EmptyDataError")
    ELSE LET h == file.header
             cols == {h[i] : i \in DOMAIN h}
             Pos(c) == CHOOSE i \in DOMAIN h : h[i] = c
         IN  Ret([cols |-> cols,
                  rows |-> [k \in DOMAIN file.lines |->
                              [c \in cols |-> ParsedCell(file.lines, k, Pos(c))]]])

\* str.strip() on a header name
Strip(name) ==
    IF name = "TotalPremium " THEN "TotalPremium"
    ELSE IF name = "make " THEN "make"
    ELSE name

rename_map ==
    ("make" :> "Make") @@ ("model" :> "Model") @@ ("cubiccapacity" :> "CubicCapacity")
    @@ ("kilowatts" :> "Kilowatts") @@ ("bodytype" :> "BodyType") @@ ("mmcode" :> "Mmcode")
    @@ ("Total_Premium" :> "TotalPremium") @@ ("Total_Claims" :> "TotalClaims")
    @@ ("Transaction_Month" :> "TransactionMonth")

\* df.columns = df.columns.str.strip(); df.rename(columns=rename_map): the
\* table under its canonical column names
StripAndRename(t) ==
    LET Rename(name) == IF name \in DOMAIN rename_map THEN rename_map[name] ELSE name
        cols == {Rename(Strip(c)) : c \in t.cols}
        Old(c2) == CHOOSE c \in t.cols : Rename(Strip(c)) = c2
    IN  [cols |-> cols,
         rows |-> [k \in DOMAIN t.rows |-> [c2 \in cols |-> t.rows[k][Old(c2)]]]]

required == {"TotalClaims", "TotalPremium", "TransactionMonth", "Province", "VehicleType"}

numeric_cols ==
    {"TotalPremium", "TotalClaims", "CalculatedPremiumPerTerm", "SumInsured", "Cylinders",
     "CubicCapacity", "Kilowatts", "CustomValueEstimate", "CapitalOutstanding"}

cat_cols == {"PostalCode", "Mmcode", "PolicyID", "UnderwrittenCoverID"}

\* pd.to_datetime(..., format='%Y-%m-%d %H:%M:%S', errors='coerce')
to_datetime(c) ==
    IF IsTextCell(c) /\ c.text = "2015-07-01 00:00:00" THEN Date(c.text) ELSE NaT

\* pd.to_numeric(..., errors='coerce')
to_numeric(c) ==
    IF IsNumberCell(c) THEN c
    ELSE IF IsTextCell(c) /\ c.text \in DOMAIN NumericTokens THEN Num(NumericTokens[c.text])
    ELSE NaN

\* Series.astype(str)
astype_str(c) ==
    IF IsTextCell(c) THEN c
    ELSE IF IsNumberCell(c) THEN (IF c.na THEN Text("nan") ELSE Text(ToString(c.v)))
    ELSE Text("NaT")

\* steps 4 to 6: each column present is converted by the list it is in
Convert(t) ==
    [cols |-> t.cols,
     rows |-> [k \in DOMAIN t.rows |->
                 [c \in t.cols |->
                     IF c = "TransactionMonth" THEN to_datetime(t.rows[k][c])
                     ELSE IF c \in numeric_cols THEN to_numeric(t.rows[k][c])
                     ELSE IF c \in cat_cols THEN astype_str(t.rows[k][c])
                     ELSE t.rows[k][c]]]]

\* `return df` when required columns are missing
MissingColumnsReturnNone(df) == Ret(None)

MissingColumnsReturn(df) == Ret(df)

load_data(file) ==
    IF ~PathExists(file) THEN Done(Raise("ValueError"), <<>>)
    ELSE LET read == read_csv(file)
         IN  IF read.raised THEN Done(Ret(None), <<"read_csv", "print_error">>)
             ELSE LET named == StripAndRename(read.val)
                      missing == required \ named.cols
                  IN  IF missing # {}
                      THEN Done(MissingColumnsReturn(named),
                                <<"read_csv", "strip", "rename", "print_warning">>)
                      ELSE Done(Ret(Convert(named)),
                                <<"read_csv", "strip", "rename", "to_datetime",
                                  "to_numeric", "astype_str">>)

InitLoad ==
    /\ orig \in Files
    /\ heap = [r \in Refs |-> NoTable]
    /\ tester = [df |-> 0, severity_df |-> 0]
    /\ call = PrimCall("none", <<>>, FALSE)
    /\ result = NoCall
    /\ log = <<>>

\* df = load_data(path), the file at `path` being orig
LoadData ==
    /\ call.op = "none"
    /\ call' = PrimCall("load_data", <<>>, FALSE)
    /\ result' = load_data(orig).out
    /\ log' = load_data(orig).log
    /\ UNCHANGED <<heap, tester, orig>>

NextLoad == LoadData \/ PrimReset

SpecLoad == InitLoad /\ [][NextLoad]_vars

\* C13: load_data on a path that does not exist raises ValueError before any
\* parsing; it never returns a table or None.
C13_MissingFileRaises ==
    (call.op = "load_data" /\ ~orig.exists) =>
        /\ result = Raise("ValueError")
        /\ log = <<>>

C13_Witness ==
    /\ call.op = "load_data"
    /\ ~orig.exists
    /\ result.raised

\* the canonical name of a header name as written
Canonical(name) ==
    IF name \in PremiumNames THEN "TotalPremium"
    ELSE IF name \in ClaimsNames THEN "TotalClaims"
    ELSE IF name = "make " THEN "Make"
    ELSE name

\* the cell holds what the token says: blank is missing, otherwise the token
\* as text or the integer it spells
Shows(cell, token) ==
    IF token = "" THEN cell = NaN
    ELSE \/ cell = Text(token)
         \/ IsNumberCell(cell) /\ (~cell.na) /\ ToString(cell.v) = token

LacksRequired ==
    /\ orig.exists
    /\ orig.header # <<>>
    /\ ~(required \subseteq {Canonical(orig.header[i]) : i \in DOMAIN orig.header})

\* C14: load_data on an existing, parseable file that lacks a required column
\* does not fail: it returns the table with every column (names stripped and
\* canonically renamed) and every row of the file, and prints the missing
\* columns; header TotalPremium|TotalClaims with row 100|50 gives exactly
\* those two columns holding 100 and 50.
C14_LenientReturn ==
    (call.op = "load_data" /\ LacksRequired) =>
        /\ ~result.raised
        /\ ~IsNone(result.val)
        /\ result.val.cols = {Canonical(orig.header[i]) : i \in DOMAIN orig.header}
        /\ Cardinality(result.val.cols) = Len(orig.header)
        /\ DOMAIN result.val.rows = DOMAIN orig.lines
        /\ \A k \in DOMAIN orig.lines : \A i \in DOMAIN orig.header :
              Shows(result.val.rows[k][Canonical(orig.header[i])], orig.lines[k][i])
        /\ "print_warning" \in {log[i] : i \in DOMAIN log}
        /\ (orig.header = <<"TotalPremium", "TotalClaims">> /\ orig.lines = << <<"100", "50">> >>) =>
              result.val = [cols |-> {"TotalPremium", "TotalClaims"},
                            rows |-> <<[TotalPremium |-> Num(100), TotalClaims |-> Num(50)]>>]

C14_Witness ==
    /\ call.op = "load_data"
    /\ orig.header = <<"TotalPremium", "TotalClaims">>
    /\ orig.lines = << <<"100", "50">> >>
    /\ ~result.raised
    /\ result.val.rows[1]["TotalPremium"] = Num(100)
    /\ result.val.rows[1]["TotalClaims"] = Num(50)

\* C15: in every table load_data returns, on the lenient return too, the
\* TotalPremium and TotalClaims columns that are present hold only numbers
\* and missing values: a non-numeric token has become missing.
C15_NumericOrMissing ==
    (call.op = "load_data" /\ ~result.raised /\ ~IsNone(result.val)) =>
        \A c \in {"TotalPremium", "TotalClaims"} \cap result.val.cols :
            \A k \in DOMAIN result.val.rows : IsNumberCell(result.val.rows[k][c])


----------------------------------------------------------------------------
(* The modelling pipeline (src/stats/modeling.py) as run_modeling.main      *)
(* sequences it: preprocess_data, split_data, train_models.                 *)

\* most rows in a table handed to preprocess_data
MaxModelRows == 3

\* a row of the table read from the cleaned CSV: an identifier, a categorical
\* feature, a numeric feature and the target
ModelRow(province, kilowatts, claims) ==
    [PolicyID |-> Text("p"), Province |-> province, Kilowatts |-> kilowatts,
     TotalClaims |-> claims]

RowKinds ==
    { ModelRow(Text("Gauteng"), Num(1), Num(0)),
      ModelRow(Text("Gauteng"), Num(1), Num(1)),
      ModelRow(Text("Limpopo"), Num(3), Num(2)),
      ModelRow(Text("Gauteng"), NaN, Num(1)),
      ModelRow(NaN, Num(3), Num(1)),
      ModelRow(NaN, NaN, Num(2)),
      ModelRow(Text("Limpopo"), Num(1), NaN) }

ModelTables ==
    { [cols |-> {"PolicyID", "Province", "Kilowatts", "TotalClaims"}, rows |-> rows] :
        rows \in UNION { [1..n -> RowKinds] : n \in 0..MaxModelRows } }

feature_cols ==
    <<"VehicleType", "Make", "BodyType", "Province", "Gender", "CubicCapacity",
      "Kilowatts", "CustomValueEstimate", "NumberOfDoors", "SumInsured",
      "CalculatedPremiumPerTerm">>

RECURSIVE GCD(_, _)
GCD(a, b) == IF b = 0 THEN a ELSE GCD(b, a % b)

\* a float that is no integer: num/den in lowest terms
Ratio(num, den) ==
    IF num % den = 0 THEN Num(num \div den)
    ELSE LET g == GCD(Abs(num), den)
         IN  [na |-> FALSE, num |-> num \div g, den |-> den \div g]

\* Series.mean(): NaN when no value is present
Mean(series) ==
    LET d == DropNa(series)
    IN  IF Len(d) = 0 THEN NaN ELSE Ratio(SumSeq([i \in DOMAIN d |-> d[i].v]), Len(d))

\* data[col].dtype == 'object': read_csv gave the column text cells
IsObject(df, col) == \E k \in DOMAIN df.rows : IsTextCell(df.rows[k][col])

\* Series.fillna(value)
fillna(c, value) == IF c = NaN THEN value ELSE c

\* the strings of the model in sorted order
StringOrder == <<"Gauteng", "Limpopo", "Unknown", "p">>

\* LabelEncoder.fit: classes_ = the sorted distinct values
Classes(series) ==
    SelectSeq(StringOrder, LAMBDA t : \E k \in DOMAIN series : series[k] = Text(t))

\* LabelEncoder.transform: the position of the value in classes_, from 0
Code(classes, c) == Num((CHOOSE i \in DOMAIN classes : Text(classes[i]) = c) - 1)

preprocess_data(df, target_col) ==
    LET claims == SelectSeq(df.rows, LAMBDA r : GtZero(r["TotalClaims"]))
        valid_cols == SelectSeq(feature_cols, LAMBDA c : c \in df.cols)
        kept == {valid_cols[i] : i \in DOMAIN valid_cols} \cup {target_col}
        Filled(c) ==
            LET series == Column(claims, c)
                value == IF IsObject(df, c) THEN Text("Unknown") ELSE Mean(series)
            IN  [k \in DOMAIN series |-> fillna(series[k], value)]
        objects == {c \in kept \ {target_col} : IsObject(df, c)}
        label_encoders == [c \in objects |-> Classes(Filled(c))]
        Encoded(c) ==
            IF c \in objects
            THEN [k \in DOMAIN claims |-> Code(label_encoders[c], Filled(c)[k])]
            ELSE Filled(c)
    IN  [X |-> [cols |-> kept \ {target_col},
                rows |-> [k \in DOMAIN claims |->
                            [c \in kept \ {target_col} |-> Encoded(c)[k]]]],
         y |-> Filled(target_col),
         label_encoders |-> label_encoders]

\* train_test_split's test size for n samples at test_size = 0.2: ceil(0.2 n)
TestSize(n) == (n + 4) \div 5

\* the rows of s at the indices in I, in order
RECURSIVE Pick(_, _)
Pick(s, I) ==
    IF s = <<>> THEN <<>>
    ELSE Pick(SubSeq(s, 1, Len(s) - 1), I)
         \o (IF Len(s) \in I THEN <<s[Len(s)]>> ELSE <<>>)

\* split_data(X, y): ValueError when the train set would be empty; `test` is the
\* set of sample indices the seeded shuffle puts in the test partition
split_data(X, y, test) ==
    LET n == Len(X.rows)
    IN  IF n - TestSize(n) <= 0 THEN Raise("ValueError")
        ELSE Ret([X_train |-> [cols |-> X.cols, rows |-> Pick(X.rows, (1..n) \ test)],
                  X_test |-> [cols |-> X.cols, rows |-> Pick(X.rows, test)],
                  y_train |-> Pick(y, (1..n) \ test),
                  y_test |-> Pick(y, test)])

\* models.items() in insertion order
ModelOrder == <<"Linear Regression", "Decision Tree", "Random Forest", "XGBoost">>

\* model.fit(X_train, y_train): LinearRegression rejects NaN in X; `faults` are
\* the models whose fit raises for a reason of the library's own
fit(name, X_train, y_train, faults) ==
    IF \/ name \in faults
       \/ /\ name = "Linear Regression"
          /\ \E k \in DOMAIN X_train.rows : \E c \in X_train.cols : X_train.rows[k][c] = NaN
    THEN Raise("ValueError")
    ELSE Ret([model |-> name, n_samples |-> Len(y_train)])

\* the loop of train_models from model i on: the first fit that raises ends it
RECURSIVE TrainFrom(_, _, _, _, _, _)
TrainFrom(i, X_train, y_train, faults, trained_models, calls) ==
    IF i > Len(ModelOrder) THEN Done(Ret(trained_models), calls)
    ELSE LET name == ModelOrder[i]
             fitted == fit(name, X_train, y_train, faults)
         IN  IF fitted.raised THEN Done(fitted, Append(calls, name))
             ELSE TrainFrom(i + 1, X_train, y_train, faults,
                            trained_models @@ (name :> fitted.val), Append(calls, name))

train_models(X_train, y_train, faults) ==
    TrainFrom(1, X_train, y_train, faults, <<>>, <<>>)

InitModel ==
    /\ \E t \in ModelTables :
          /\ heap = [r \in Refs |-> IF r = CallerRef THEN t ELSE NoTable]
          /\ orig = t
    /\ tester = [df |-> 0, severity_df |-> 0]
    /\ call = Invocation("none", <<>>, "", {})
    /\ result = NoCall
    /\ log = <<>>

\* X, y, encoders = preprocess_data(df, target_col='TotalClaims')
Preprocess ==
    /\ call.op = "none"
    /\ call' = Invocation("preprocess_data", <<>>, "", {})
    /\ result' = Ret(preprocess_data(heap[CallerRef], "TotalClaims"))
    /\ log' = <<>>
    /\ UNCHANGED <<heap, tester, orig>>

\* X_train, X_test, y_train, y_test = split_data(X, y)
SplitData(test) ==
    /\ call.op = "preprocess_data"
    /\ test \subseteq DOMAIN result.val.y
    /\ Cardinality(test) = TestSize(Len(result.val.y))
    /\ call' = Invocation("split_data", <<>>, "", {})
    /\ result' = split_data(result.val.X, result.val.y, test)
    /\ log' = <<>>
    /\ UNCHANGED <<heap, tester, orig>>

\* models = train_models(X_train, y_train)
TrainModels(faults) ==
    /\ call.op = "split_data"
    /\ ~result.raised
    /\ call' = Invocation("train_models", <<>>, "", faults)
    /\ LET done == train_models(result.val.X_train, result.val.y_train, faults)
       IN  /\ result' = done.out
           /\ log' = done.log
    /\ UNCHANGED <<heap, tester, orig>>

Models == {ModelOrder[i] : i \in DOMAIN ModelOrder}

NextModel ==
    \/ Preprocess
    \/ \E test \in SUBSET (1..MaxModelRows) : SplitData(test)
    \/ \E faults \in {{}} \cup {{m} : m \in Models} : TrainModels(faults)

SpecModel == InitModel /\ [][NextModel]_vars

\* C16: in train_models a model whose fit fails is caught and recorded as a
\* null result for that model only: every model of the fixed order is still
\* fitted and the call returns the mapping instead of raising.
C16_FitFailureContained ==
    (call.op = "train_models") =>
        /\ ~result.raised
        /\ log = ModelOrder
        /\ DOMAIN result.val = Models
        /\ \A m \in call.faults : IsNone(result.val[m])

\* the rows of the table handed over that have a claim, in order
ClaimRows ==
    SelectSeq(orig.rows, LAMBDA r : (~r.TotalClaims.na) /\ r.TotalClaims.v > 0)

\* the cell is the mean of the values present in column c of the claim rows
IsColumnMean(cell, c) ==
    LET I == {k \in DOMAIN ClaimRows : ClaimRows[k][c] # NaN}
        f[S \in SUBSET I] ==
            IF S = {} THEN 0
            ELSE LET k == CHOOSE k \in S : TRUE IN ClaimRows[k][c].v + f[S \ {k}]
    IN  /\ I # {}
        /\ cell # NaN
        /\ IF "v" \in DOMAIN cell THEN cell.v * Cardinality(I) = f[I]
           ELSE cell.num * Cardinality(I) = f[I] * cell.den

\* C17: preprocess_data returns only the rows with TotalClaims > 0 and no
\* feature cell is missing: a missing numeric feature is the column mean, a
\* missing categorical one is 'Unknown', each text-typed feature is integer
\* codes, and the encoders have one entry per such feature, mapping distinct
\* values to distinct codes.
C17_PreprocessComplete ==
    (call.op = "preprocess_data") =>
        LET X == result.val.X
            y == result.val.y
            enc == result.val.label_encoders
        IN  /\ ~result.raised
            /\ X.cols = {"Province", "Kilowatts"}
            /\ DOMAIN X.rows = DOMAIN ClaimRows
            /\ y = Column(ClaimRows, "TotalClaims")
            /\ \A k \in DOMAIN y : y[k].v > 0
            /\ \A k \in DOMAIN X.rows : \A c \in X.cols : X.rows[k][c] # NaN
            /\ \A k \in DOMAIN X.rows :
                  IF ClaimRows[k]["Kilowatts"] = NaN
                  THEN IsColumnMean(X.rows[k]["Kilowatts"], "Kilowatts")
                  ELSE X.rows[k]["Kilowatts"] = ClaimRows[k]["Kilowatts"]
            /\ DOMAIN enc = {c \in X.cols : \E k \in DOMAIN orig.rows :
                                                IsTextCell(orig.rows[k][c])}
            /\ \A c \in DOMAIN enc : \A k \in DOMAIN X.rows :
                  /\ IsNumberCell(X.rows[k][c])
                  /\ Text(enc[c][X.rows[k][c].v + 1]) =
                        (IF ClaimRows[k][c] = NaN THEN Text("Unknown") ELSE ClaimRows[k][c])
            /\ \A c \in DOMAIN enc : \A i, j \in DOMAIN enc[c] :
                  enc[c][i] = enc[c][j] => i = j


----------------------------------------------------------------------------
(* The distribution utilities (src/stats/distributions.py), each called on  *)
(* one column.                                                              *)

\* longest column handed to a distribution utility
MaxSeries == 3

\* the most observations the normality test is run on
ShapiroLimit == 5000

SeriesCells == {NaN, Num(1), Num(2), Text("a")}

AllSeries == UNION {[1..n -> SeriesCells] : n \in 0..MaxSeries}

\* series.dropna() on a column of any type
dropna(series) == SelectSeq(series, LAMBDA c : c # NaN)

HasText(data) == \E k \in DOMAIN data : IsTextCell(data[k])

\* the values of a numeric column in ascending order
RECURSIVE Sorted(_)
Sorted(data) ==
    IF data = <<>> THEN <<>>
    ELSE LET m == MinOf(data)
             i == CHOOSE i \in DOMAIN data : data[i].v = m
         IN  <<Num(m)>> \o Sorted(SubSeq(data, 1, i - 1) \o SubSeq(data, i + 1, Len(data)))

\* Series.median(): the middle value, or the mean of the two middle ones
Median(data) ==
    LET n == Len(data)
        srt == Sorted(data)
    IN  IF n = 0 THEN NaN
        ELSE IF n % 2 = 1 THEN srt[(n + 1) \div 2]
        ELSE Ratio(srt[n \div 2].v + srt[n \div 2 + 1].v, 2)

\* Series.std(): sqrt(D / (n (n - 1))), NaN for fewer than two values
Std(data) ==
    LET m == Moments(data)
    IN  IF m.n < 2 THEN StatNaN ELSE StatFinite(Sign(m.D), m.D, m.n * (m.n - 1))

\* sum of (n x - S)^k over the values: n^k times the k-th central sum
CentralSum(data, k) ==
    LET m == Moments(data)
        dev(i) == m.n * data[i].v - m.S
    IN  SumSeq([i \in DOMAIN data |->
                   IF k = 3 THEN dev(i) * dev(i) * dev(i)
                   ELSE dev(i) * dev(i) * dev(i) * dev(i)])

\* scipy.stats.skew(data) = m3 / m2^1.5: nan for no data or no spread
Skew(data) ==
    LET m == Moments(data)
        M3 == CentralSum(data, 3)
    IN  IF m.n = 0 \/ m.D = 0 THEN StatNaN
        ELSE StatFinite(Sign(M3), M3 * M3, m.n * m.n * m.D * m.D * m.D)

\* scipy.stats.kurtosis(data) = m4 / m2^2 - 3: nan for no data or no spread
Kurtosis(data) ==
    LET m == Moments(data)
        M4 == CentralSum(data, 4)
    IN  IF m.n = 0 \/ m.D = 0 THEN NaN
        ELSE Ratio(M4 - 3 * m.n * m.D * m.D, m.n * m.D * m.D)

\* the try block of distribution_summary: the reductions raise TypeError on text
SummaryBody(series) ==
    LET data == dropna(series)
    IN  IF HasText(data) THEN Raise("TypeError")
        ELSE Ret([mean |-> Mean(data), median |-> Median(data), std |-> Std(data),
                  skewness |-> Skew(data), kurtosis |-> Kurtosis(data)])

distribution_summary(series) == CatchAll(SummaryBody(series))

\* min(len(data), 5000)
SampleSize(n) == IF n < ShapiroLimit THEN n ELSE ShapiroLimit

\* scipy.stats.shapiro(sample): needs three values; on fewer it raises
\* ValueError or returns (nan, nan), by scipy version (`small_raises`)
shapiro(sample, small_raises) ==
    IF HasText(sample) THEN Raise("ValueError")
    ELSE IF Len(sample) < 3
         THEN (IF small_raises THEN Raise("ValueError") ELSE Ret(<<NaN, NaN>>))
    ELSE Ret(<<[W |-> Sorted(sample)], [p |-> Sorted(sample)]>>)

\* the try block of normality_test; data.sample(n) of all n values is a shuffle
NormalityBody(series, small_raises) ==
    LET data == dropna(series)
        sample == SubSeq(data, 1, SampleSize(Len(data)))
    IN  shapiro(sample, small_raises)

normality_test(series, small_raises) == CatchAll(NormalityBody(series, small_raises))

\* the try block of plot_distribution: it raises ValueError itself on an empty
\* column; `histplot_raises` says whether seaborn rejects a text column
PlotBody(series, histplot_raises) ==
    LET data == dropna(series)
    IN  IF data = <<>> THEN Raise("ValueError")
        ELSE IF HasText(data) /\ histplot_raises THEN Raise("TypeError")
        ELSE Ret([plt |-> TRUE])

plot_distribution(series, histplot_raises) == CatchAll(PlotBody(series, histplot_raises))

DistSummary(series) ==
    /\ call.op = "none"
    /\ call' = PrimCall("distribution_summary", series, FALSE)
    /\ result' = distribution_summary(series)
    /\ log' = <<IF SummaryBody(series).raised THEN "print_error" ELSE "ok">>
    /\ UNCHANGED <<heap, tester, orig>>

NormalityTest(series, small_raises) ==
    /\ call.op = "none"
    /\ call' = PrimCall("normality_test", series, small_raises)
    /\ result' = normality_test(series, small_raises)
    /\ log' = <<IF NormalityBody(series, small_raises).raised THEN "print_error" ELSE "ok">>
    /\ UNCHANGED <<heap, tester, orig>>

PlotDistribution(series, histplot_raises) ==
    /\ call.op = "none"
    /\ call' = PrimCall("plot_distribution", series, histplot_raises)
    /\ result' = plot_distribution(series, histplot_raises)
    /\ log' = <<IF PlotBody(series, histplot_raises).raised THEN "print_error" ELSE "ok">>
    /\ UNCHANGED <<heap, tester, orig>>

NextDist ==
    \/ \E series \in AllSeries : DistSummary(series)
    \/ \E series \in AllSeries, small_raises \in BOOLEAN : NormalityTest(series, small_raises)
    \/ \E series \in AllSeries, histplot_raises \in BOOLEAN :
          PlotDistribution(series, histplot_raises)
    \/ PrimReset

SpecDist == InitPrim /\ [][NextDist]_vars

DistributionUtilities == {"distribution_summary", "normality_test", "plot_distribution"}

\* the column has no value, or holds text the routine at hand rejects
CannotBeComputed ==
    \/ \A k \in DOMAIN call.args : call.args[k] = NaN
    \/ /\ \E k \in DOMAIN call.args : call.args[k] = Text("a")
       /\ call.op = "plot_distribution" => call.fault

\* C18: the distribution utilities never raise, and on a column the
\* computation cannot be carried out on, a column of missing values only
\* included, each returns None and no non-null record.
C18_NullOnFailure ==
    (call.op \in DistributionUtilities) =>
        /\ ~result.raised
        /\ CannotBeComputed => IsNone(result.val)

============================================================================
